---- MODULE Spec2Model ----
(***************************************************************************)
(* Expiring tokenized links (src/main.py): POST /send stores a message     *)
(* record under a random token and emails the view link; GET /view/{token} *)
(* and GET /image/{token} look the record up, delete it when it is expired *)
(* and otherwise render the page or serve the stored file.                 *)
(*                                                                         *)
(* The handlers are split at the points where they touch shared state (the *)
(* SQLite table, the upload directory, the wall clock), so that requests   *)
(* served by different threads interleave as they can in the program.      *)
(***************************************************************************)
EXTENDS Integers, Sequences, FiniteSets, TLC

VARIABLES
    clock,       \* time.time(), in whole seconds
    store,       \* the rows of table messages
    files,       \* the paths that exist under UPLOAD_DIR
    configured,  \* ACS_EMAIL_CONNECTION_STRING and FROM_EMAIL are both set
    issued,      \* per token: how many times secrets.token_urlsafe returned it
    deleted,     \* history: tokens whose row a delete_message call removed
    send,        \* the POST /send request being served, with its locals
    readers,     \* the GET requests being served, one per worker thread
    outbox       \* the messages handed to EmailClient.begin_send

vars == <<clock, store, files, configured, issued, deleted, send, readers, outbox>>

----------------------------------------------------------------------------
(* Bounds of the model *)

\* the clock runs from 0 to MaxClock
MaxClock == 1
\* SpecCollide: the tokens generated in one behaviour
MaxSends == 2
\* SpecRender: the length of a message text
MaxTextLen == 2

----------------------------------------------------------------------------
(* Values *)

NULL == "NULL"

Tokens == {"tA", "tB"}

Readers == {"r1", "r2"}

Recipients == {"a@example.org"}

Subjects == {"Your secure link"}

TtlValues == {0, 1}

\* a text is a sequence of characters
Texts == {<<"<", "\n">>}

Chars == {"&", "<", ">", "\"", "'", "\n", "a"}

RECURSIVE SeqsUpTo(_, _)
SeqsUpTo(S, n) ==
    IF n = 0 THEN {<<>>}
    ELSE LET shorter == SeqsUpTo(S, n - 1)
         IN  shorter \cup {Append(s, c) : s \in {t \in shorter : Len(t) = n - 1}, c \in S}

AllTexts == SeqsUpTo(Chars, MaxTextLen)

\* image: Optional[UploadFile]; an upload is known by its filename, split as
\* os.path.splitext splits it
NoImage == [present |-> FALSE]

Upload == [present |-> TRUE, stem |-> "pic", ext |-> ".JPG"]

\* the (image, image_url) pairs of the requests: nothing, an empty URL, a URL,
\* an upload
ImageSources == {<<NoImage, NULL>>, <<NoImage, "">>, <<NoImage, "http://img">>,
                 <<Upload, NULL>>}

BASE_URL == "http://base"

UPLOAD_DIR == "data/uploads/"

NoRow == [token |-> NULL]

NoBody == [none |-> TRUE]

NoResp == [status |-> "none"]

----------------------------------------------------------------------------
(* Python truthiness of an Optional[str], and of an Optional[UploadFile] *)

Truthy(v) == v # NULL /\ v # ""

Lower(ext) == IF ext = ".JPG" THEN ".jpg" ELSE ext

\* os.path.splitext(image.filename or "")[1].lower() or ".png"
Ext(image) == IF Truthy(Lower(image.ext)) THEN Lower(image.ext) ELSE ".png"

\* os.path.join(UPLOAD_DIR, f"{token}{ext}")
ImagePath(token, image) == UPLOAD_DIR \o token \o Ext(image)

\* mutant: the sources are tested with "is None"
NoImageSourceIsNone(image, image_url) == ~image.present /\ image_url = NULL

\* if not image and not image_url
NoImageSource(image, image_url) == ~image.present /\ ~Truthy(image_url)

\* mutant: the default ttl is used, whatever the request says
ExpiresAtDefault(now, ttl_seconds) == now + 3600

\* expires_at = now + int(ttl_seconds)
ExpiresAt(now, ttl_seconds) == now + ttl_seconds

\* link = f"{BASE_URL}/view/{token}"
ViewLink(token) == BASE_URL \o "/view/" \o token

\* email_body = f"Open your link (expires in {ttl_seconds} seconds):\n{link}"
EmailBody(ttl_seconds, link) == [ttl_seconds |-> ttl_seconds, link |-> link]

----------------------------------------------------------------------------
(* The table messages *)

\* SELECT * FROM messages WHERE token = ? ... fetchone()
fetch_message(s, token) ==
    LET rows == {r \in s : r.token = token}
    IN  IF rows = {} THEN NoRow ELSE CHOOSE r \in rows : TRUE

\* mutant: the DELETE has no WHERE clause
delete_all(s, token) == {}

\* DELETE FROM messages WHERE token = ?; a statement that matches no row
\* deletes nothing and raises nothing
delete_message(s, token) == {r \in s : r.token # token}

\* mutant: deleting a row that is not there is an error
DeleteRaisesWhenMissing(s, token) == \A r \in s : r.token # token

\* conn.execute("DELETE ...") raises for no token, stored or not
DeleteRaises(s, token) == FALSE

\* mutant: token is no key of the table
NoPrimaryKey(s, row) == FALSE

\* token TEXT PRIMARY KEY: an INSERT with the token of a stored row raises
\* sqlite3.IntegrityError
PrimaryKeyViolated(s, row) == \E r \in s : r.token = row.token

\* mutant: the connection is closed without a commit
InsertRowUncommitted(s, row) == s

\* INSERT INTO messages ... ; conn.commit()
InsertRow(s, row) == s \cup {row}

\* mutant: a record is expired from its expiry time on
ExpiredAtOrAfter(now, row) == now >= row.expires_at

\* time.time() > row["expires_at"]
Expired(now, row) == now > row.expires_at

----------------------------------------------------------------------------
(* html.escape and the view page *)

RECURSIVE Replace(_, _, _)
\* str.replace(old, new) for a one-character old
Replace(s, old, new) ==
    IF s = <<>> THEN <<>>
    ELSE (IF Head(s) = old THEN new ELSE <<Head(s)>>) \o Replace(Tail(s), old, new)

\* mutant: html.escape(s, quote=False)
escape_noquote(s) ==
    LET s1 == Replace(s, "&", <<"&", "a", "m", "p", ";">>)
        s2 == Replace(s1, "<", <<"&", "l", "t", ";">>)
    IN  Replace(s2, ">", <<"&", "g", "t", ";">>)

\* html.escape(s), quote=True
escape(s) ==
    LET s1 == Replace(s, "&", <<"&", "a", "m", "p", ";">>)
        s2 == Replace(s1, "<", <<"&", "l", "t", ";">>)
        s3 == Replace(s2, ">", <<"&", "g", "t", ";">>)
        s4 == Replace(s3, "\"", <<"&", "q", "u", "o", "t", ";">>)
    IN  Replace(s4, "'", <<"&", "#", "x", "2", "7", ";">>)

\* safe_text = escape(row["text"]).replace("\n", "<br/>")
SafeText(text) == Replace(escape(text), "\n", <<"<", "b", "r", "/", ">">>)

\* img_src = row["image_url"] if row["image_url"] else f"/image/{token}"
ImgSrc(row, token) == IF Truthy(row.image_url) THEN row.image_url ELSE "/image/" \o token

\* the two holes of the page template
Page(row, token) == [img_src |-> ImgSrc(row, token), safe_text |-> SafeText(row.text)]

\* mutant: only a path that is set is looked for on disk
NoStoredImageOnDisk(row, fs) == Truthy(row.image_path) /\ row.image_path \notin fs

\* not image_path or not os.path.exists(image_path)
NoStoredImage(row, fs) == ~Truthy(row.image_path) \/ row.image_path \notin fs

----------------------------------------------------------------------------
(* The email notifier *)

\* mutant: the failure is caught and logged
send_email_acs_quiet(isConfigured, providerOk) ==
    [handed |-> isConfigured, raised |-> FALSE]

\* send_email_acs: raises when the configuration is missing, otherwise hands
\* the message to the provider and raises when poller.result() raises
send_email_acs(isConfigured, providerOk) ==
    IF ~isConfigured THEN [handed |-> FALSE, raised |-> TRUE]
    ELSE [handed |-> TRUE, raised |-> ~providerOk]

----------------------------------------------------------------------------
(* Initial state: a fresh deployment, after on_startup *)

IdleSend ==
    [pc |-> "idle", to |-> NULL, subject |-> NULL, text |-> <<>>, ttl_seconds |-> 0,
     image |-> NoImage, image_url |-> NULL, token |-> NULL, now |-> 0,
     expires_at |-> 0, image_path |-> NULL, status |-> 0, failed_at |-> "none",
     attempts |-> 0, provider |-> "none", resp |-> NoResp]

IdleReader ==
    [pc |-> "idle", kind |-> "none", token |-> NULL, row |-> NoRow, status |-> 0,
     detail |-> "", body |-> NoBody]

Init ==
    /\ clock = 0
    /\ store = {}
    /\ files = {}
    /\ configured \in BOOLEAN
    /\ issued = [t \in Tokens |-> 0]
    /\ deleted = {}
    /\ send = IdleSend
    /\ readers = [r \in Readers |-> IdleReader]
    /\ outbox = {}

----------------------------------------------------------------------------
(* The clock: time.time(), taken to be monotone *)

Tick ==
    /\ clock < MaxClock
    /\ clock' = clock + 1
    /\ UNCHANGED <<store, files, configured, issued, deleted, send, readers, outbox>>

----------------------------------------------------------------------------
(* POST /send *)

Total(f) == LET RECURSIVE Sum(_)
                Sum(S) == IF S = {} THEN 0
                          ELSE LET t == CHOOSE x \in S : TRUE IN f[t] + Sum(S \ {t})
            IN  Sum(DOMAIN f)

\* the request is refused before anything is generated or written
send_link_reject(to, text, ttl_seconds, subject, image, image_url) ==
    /\ send.pc \in {"idle", "done"}
    /\ NoImageSource(image, image_url)
    /\ send' = [IdleSend EXCEPT !.pc = "done", !.image = image,
                                !.image_url = image_url, !.status = 400,
                                !.failed_at = "validate"]
    /\ UNCHANGED <<clock, store, files, configured, issued, deleted, readers, outbox>>

\* token, now, expires_at and image_path are computed; the coroutine then
\* awaits image.read() when there is an upload
send_link_begin(to, text, ttl_seconds, subject, image, image_url, token) ==
    /\ send.pc \in {"idle", "done"}
    /\ ~NoImageSource(image, image_url)
    /\ send' = [IdleSend EXCEPT !.pc = IF image.present THEN "write" ELSE "insert",
                                !.to = to, !.subject = subject, !.text = text,
                                !.ttl_seconds = ttl_seconds, !.image = image,
                                !.image_url = image_url, !.token = token,
                                !.now = clock,
                                !.expires_at = ExpiresAt(clock, ttl_seconds),
                                !.image_path = IF image.present
                                               THEN ImagePath(token, image)
                                               ELSE NULL]
    /\ issued' = [issued EXCEPT ![token] = @ + 1]
    /\ UNCHANGED <<clock, store, files, configured, deleted, readers, outbox>>

\* with open(image_path, "wb") as f: f.write(content)
send_link_write ==
    /\ send.pc = "write"
    /\ files' = files \cup {send.image_path}
    /\ send' = [send EXCEPT !.pc = "insert"]
    /\ UNCHANGED <<clock, store, configured, issued, deleted, readers, outbox>>

SendRow ==
    [token |-> send.token, recipient |-> send.to, subject |-> send.subject,
     text |-> send.text, image_path |-> send.image_path,
     image_url |-> send.image_url, expires_at |-> send.expires_at,
     created_at |-> send.now]

\* the INSERT and its commit; an IntegrityError ends the request
send_link_insert ==
    /\ send.pc = "insert"
    /\ IF PrimaryKeyViolated(store, SendRow)
       THEN /\ send' = [send EXCEPT !.pc = "done", !.status = 500,
                                    !.failed_at = "insert"]
            /\ store' = store
       ELSE /\ store' = InsertRow(store, SendRow)
            /\ send' = [send EXCEPT !.pc = "email"]
    /\ UNCHANGED <<clock, files, configured, issued, deleted, readers, outbox>>

\* the link is built and mailed; the handler returns only when
\* send_email_acs returns
send_link_email(providerOk) ==
    /\ send.pc = "email"
    /\ LET link == ViewLink(send.token)
           sent == send_email_acs(configured, providerOk)
           message == [to |-> send.to, subject |-> send.subject,
                       body |-> EmailBody(send.ttl_seconds, link)]
           answer == IF ~sent.handed THEN "none"
                     ELSE IF providerOk THEN "ok" ELSE "failed"
       IN  /\ outbox' = IF sent.handed THEN outbox \cup {message} ELSE outbox
           /\ send' = IF sent.raised
                      THEN [send EXCEPT !.pc = "done", !.status = 500,
                                        !.failed_at = "email",
                                        !.attempts = @ + 1, !.provider = answer]
                      ELSE [send EXCEPT !.pc = "done", !.status = 200,
                                        !.attempts = @ + 1, !.provider = answer,
                                        !.resp = [status |-> "sent", link |-> link,
                                                  expires_at |-> send.expires_at]]
    /\ UNCHANGED <<clock, store, files, configured, issued, deleted, readers>>

----------------------------------------------------------------------------
(* GET /view/{token} and GET /image/{token} *)

\* row = fetch_message(token); if not row: 404
Fetched(r, kind, token, notFound) ==
    LET row == fetch_message(store, token)
    IN  readers' = [readers EXCEPT ![r] =
            [pc |-> IF row = NoRow THEN "done" ELSE "fetched", kind |-> kind,
             token |-> token, row |-> row,
             status |-> IF row = NoRow THEN 404 ELSE 0,
             detail |-> IF row = NoRow THEN notFound ELSE "", body |-> NoBody]]

view_fetch(r, token) ==
    /\ readers[r].pc \in {"idle", "done"}
    /\ Fetched(r, "view", token, "Invalid link")
    /\ UNCHANGED <<clock, store, files, configured, issued, deleted, send, outbox>>

get_image_fetch(r, token) ==
    /\ readers[r].pc \in {"idle", "done"}
    /\ Fetched(r, "image", token, "Not found")
    /\ UNCHANGED <<clock, store, files, configured, issued, deleted, send, outbox>>

\* delete_message(token), then the 410; an exception of delete_message would
\* end the request with a 500
Gone(rd, expired) ==
    IF DeleteRaises(store, rd.token)
    THEN [rd EXCEPT !.pc = "done", !.status = 500, !.row = NoRow,
                    !.detail = "Internal Server Error"]
    ELSE [rd EXCEPT !.pc = "done", !.status = 410, !.row = NoRow,
                    !.detail = expired]

\* the rest of view: the clock is read once; an expired row is deleted and
\* the answer is 410, otherwise the page is rendered.  The clock read and the
\* DELETE are one step: expiry is monotone in the clock and the read touches
\* nothing another request writes, so a later read decides the same.
view_finish(r) ==
    /\ readers[r].pc = "fetched"
    /\ readers[r].kind = "view"
    /\ LET rd == readers[r]
       IN  IF Expired(clock, rd.row)
           THEN /\ store' = delete_message(store, rd.token)
                /\ deleted' = IF store' = store THEN deleted
                              ELSE deleted \cup {rd.token}
                /\ readers' = [readers EXCEPT ![r] =
                       Gone(rd, "<h2>Link expired</h2>")]
           ELSE /\ readers' = [readers EXCEPT ![r] =
                       [rd EXCEPT !.pc = "done", !.status = 200, !.row = NoRow,
                                  !.body = Page(rd.row, rd.token)]]
                /\ UNCHANGED <<store, deleted>>
    /\ UNCHANGED <<clock, files, configured, issued, send, outbox>>

\* the rest of get_image: the same expiry check, then the stored file
get_image_finish(r) ==
    /\ readers[r].pc = "fetched"
    /\ readers[r].kind = "image"
    /\ LET rd == readers[r]
       IN  IF Expired(clock, rd.row)
           THEN /\ store' = delete_message(store, rd.token)
                /\ deleted' = IF store' = store THEN deleted
                              ELSE deleted \cup {rd.token}
                /\ readers' = [readers EXCEPT ![r] = Gone(rd, "Expired")]
           ELSE /\ readers' = [readers EXCEPT ![r] =
                       IF NoStoredImage(rd.row, files)
                       THEN [rd EXCEPT !.pc = "done", !.status = 404, !.row = NoRow,
                                       !.detail = "No stored image"]
                       ELSE [rd EXCEPT !.pc = "done", !.status = 200, !.row = NoRow,
                                       !.body = [file |-> rd.row.image_path]]]
                /\ UNCHANGED <<store, deleted>>
    /\ UNCHANGED <<clock, files, configured, issued, send, outbox>>

----------------
(* Specifications *)

\* Spec takes secrets.token_urlsafe(24) as the program relies on it, unique
\* and unguessable: a token is never returned twice (Fresh), and no client
\* names a token while the send request that generated it is still running
\* (InFlight).  SpecCollide below drops both.
Fresh(token) == issued[token] = 0

InFlight(token) == send.pc \in {"write", "insert", "email"} /\ send.token = token

Next ==
    \/ Tick
    \/ \E to \in Recipients, text \in Texts, ttl_seconds \in TtlValues,
          subject \in Subjects, src \in ImageSources :
           send_link_reject(to, text, ttl_seconds, subject, src[1], src[2])
    \/ \E to \in Recipients, text \in Texts, ttl_seconds \in TtlValues,
          subject \in Subjects, src \in ImageSources, token \in Tokens :
           Fresh(token)
           /\ send_link_begin(to, text, ttl_seconds, subject, src[1], src[2], token)
    \/ send_link_write
    \/ send_link_insert
    \/ \E providerOk \in BOOLEAN : send_link_email(providerOk)
    \/ \E r \in Readers, token \in Tokens : ~InFlight(token) /\ view_fetch(r, token)
    \/ \E r \in Readers, token \in Tokens : ~InFlight(token) /\ get_image_fetch(r, token)
    \/ \E r \in Readers : view_finish(r)
    \/ \E r \in Readers : get_image_finish(r)

Spec == Init /\ [][Next]_vars

\* the same program when the generator may return any token, one of a stored
\* or of an earlier record included, and a client may name any token; the
\* GET requests are served one at a time
CollideReaders == {"r1"}

NextCollide ==
    \/ Tick
    \/ \E to \in Recipients, text \in Texts, ttl_seconds \in TtlValues,
          subject \in Subjects, src \in ImageSources :
           send_link_reject(to, text, ttl_seconds, subject, src[1], src[2])
    \/ \E to \in Recipients, text \in Texts, ttl_seconds \in TtlValues,
          subject \in Subjects, src \in ImageSources, token \in Tokens :
           Total(issued) < MaxSends
           /\ send_link_begin(to, text, ttl_seconds, subject, src[1], src[2], token)
    \/ send_link_write
    \/ send_link_insert
    \/ \E providerOk \in BOOLEAN : send_link_email(providerOk)
    \/ \E r \in CollideReaders, token \in Tokens : view_fetch(r, token)
    \/ \E r \in CollideReaders, token \in Tokens : get_image_fetch(r, token)
    \/ \E r \in CollideReaders : view_finish(r)
    \/ \E r \in CollideReaders : get_image_finish(r)

SpecCollide == Init /\ [][NextCollide]_vars

\* the view page of every text up to MaxTextLen characters: one record is
\* sent and viewed
NextRender ==
    \/ \E to \in Recipients, text \in AllTexts, subject \in Subjects :
           Fresh("tA")
           /\ send_link_begin(to, text, 1, subject, NoImage, "http://img", "tA")
    \/ send_link_insert
    \/ \E providerOk \in BOOLEAN : send_link_email(providerOk)
    \/ \E r \in Readers : ~InFlight("tA") /\ view_fetch(r, "tA")
    \/ \E r \in Readers : view_finish(r)

SpecRender == Init /\ [][NextRender]_vars

----------------------------------------------------------------------------
(* Steps, as the properties below name them *)

\* reader r takes its fetch step, its step from the expiry check on
FetchStep(r) == readers[r].pc \in {"idle", "done"} /\ readers'[r] # readers[r]

CheckStep(r) == readers[r].pc = "fetched" /\ readers'[r] # readers[r]

\* a POST /send arrives, its row is inserted (or refused), its email is sent
SendStartStep == send.pc \in {"idle", "done"} /\ send' # send

InsertStep == send.pc = "insert" /\ send' # send

EmailStep == send.pc = "email" /\ send' # send

RowsOf(s, token) == {row \in s : row.token = token}

----------------------------------------------------------------------------
(* C1: a record created at time c with ttl T has expires_at = c + T; a view  *)
(* whose expiry check runs at a clock value <= c + T renders the page (200); *)
(* a view or image request whose expiry check runs at a clock value > c + T  *)
(* deletes the record and answers 410, after which no row of the token is   *)
(* stored; every request for the token that looks it up after the deletion  *)
(* answers 404.                                                              *)

C1_Step ==
    /\ (InsertStep /\ store' # store) =>
           \E row \in store' \ store :
               /\ row.created_at = send.now
               /\ row.expires_at = row.created_at + send.ttl_seconds
    /\ \A r \in Readers :
        /\ (CheckStep(r) /\ readers[r].kind = "view"
                /\ clock <= readers[r].row.expires_at) =>
               (readers'[r].pc = "done" /\ readers'[r].status = 200)
        /\ (CheckStep(r) /\ clock > readers[r].row.expires_at) =>
               /\ readers'[r].pc = "done"
               /\ readers'[r].status = 410
               /\ RowsOf(store', readers[r].token) = {}
        /\ (FetchStep(r) /\ readers'[r].token \in deleted) =>
               (readers'[r].pc = "done" /\ readers'[r].status = 404)

C1_ExpiryLifecycle == [][C1_Step]_vars

\* a request has deleted the expired record and a later one answers 404
C1_Witness ==
    \E r1, r2 \in Readers :
        /\ readers[r1].status = 410
        /\ readers[r2].status = 404
        /\ readers[r2].token = readers[r1].token
        /\ readers[r1].token \in deleted

----------------------------------------------------------------------------
(* C2: a POST /send with neither an upload nor a non-empty image_url is     *)
(* answered 400 and changes nothing: no token is generated, no file is      *)
(* written, no row is inserted and no email is sent.                        *)

C2_Step ==
    (SendStartStep /\ ~send'.image.present /\ send'.image_url \in {NULL, ""}) =>
        /\ send'.pc = "done"
        /\ send'.status = 400
        /\ send'.token = NULL
        /\ UNCHANGED <<store, files, issued, outbox>>

C2_NoImageSourceRejected == [][C2_Step]_vars

\* a request with an empty image_url and no upload has been refused
C2_Witness ==
    /\ send.pc = "done"
    /\ send.status = 400
    /\ ~send.image.present
    /\ send.image_url = ""

----------------------------------------------------------------------------
(* C3: GET /image/{token} for a stored, unexpired record with no stored     *)
(* file answers 404; the record stays in the store, and a view of it        *)
(* renders the page.                                                        *)

C3_Step ==
    \A r \in Readers :
        /\ (CheckStep(r) /\ readers[r].kind = "image"
                /\ clock <= readers[r].row.expires_at
                /\ (readers[r].row.image_path = NULL
                        \/ readers[r].row.image_path \notin files)) =>
               /\ readers'[r].pc = "done"
               /\ readers'[r].status = 404
               /\ store' = store
               /\ readers[r].row \in store'
        /\ (CheckStep(r) /\ readers[r].kind = "view"
                /\ clock <= readers[r].row.expires_at
                /\ readers[r].row.image_path = NULL) =>
               /\ readers'[r].status = 200
               /\ readers'[r].body.img_src = readers[r].row.image_url

C3_NoStoredImage == [][C3_Step]_vars

\* an image request has been answered "No stored image" for a record that is
\* still stored, and a view of the same record has rendered
C3_Witness ==
    \E r1, r2 \in Readers :
        /\ readers[r1].kind = "image"
        /\ readers[r1].status = 404
        /\ readers[r1].detail = "No stored image"
        /\ \E row \in store : row.token = readers[r1].token /\ row.image_path = NULL
        /\ readers[r2].kind = "view"
        /\ readers[r2].status = 200
        /\ readers[r2].token = readers[r1].token

----------------------------------------------------------------------------
(* C4: when the provider fails, or the email configuration is missing, the  *)
(* send request fails (500, no {status: sent, link, expires_at}); the       *)
(* notification of a request is attempted exactly once, and no message is   *)
(* handed to the provider outside that one attempt.                         *)

C4_Step ==
    /\ EmailStep =>
           /\ send.attempts = 0
           /\ send'.attempts = 1
           /\ send'.pc = "done"
           /\ (~configured \/ send'.provider = "failed") =>
                  /\ send'.status = 500
                  /\ send'.resp = NoResp
    /\ (outbox' # outbox) => EmailStep
    /\ (send'.attempts # send.attempts /\ ~SendStartStep) => EmailStep

C4_EmailFailureIsFatal == [][C4_Step]_vars

\* the provider has refused the message of a request, which has failed
C4_Witness ==
    /\ send.pc = "done"
    /\ send.provider = "failed"
    /\ send.failed_at = "email"
    /\ send.attempts = 1

----------------------------------------------------------------------------
(* C5: the page of a view holds the message text in escaped form only: in   *)
(* the rendered text every "<" opens and every ">" closes a "<br/>", every  *)
(* "&" opens one of the five entities, there is no quote character, and     *)
(* there are as many "<br/>" as the text has newlines.                      *)

StartsAt(out, i, pat) ==
    /\ i + Len(pat) - 1 <= Len(out)
    /\ \A k \in 1..Len(pat) : out[i + k - 1] = pat[k]

LineBreak == <<"<", "b", "r", "/", ">">>

Entities ==
    {<<"&", "a", "m", "p", ";">>, <<"&", "l", "t", ";">>, <<"&", "g", "t", ";">>,
     <<"&", "q", "u", "o", "t", ";">>, <<"&", "#", "x", "2", "7", ";">>}

NoLiveMarkup(out) ==
    \A i \in 1..Len(out) :
        /\ out[i] = "<" => StartsAt(out, i, LineBreak)
        /\ out[i] = ">" => (i >= 5 /\ StartsAt(out, i - 4, LineBreak))
        /\ out[i] = "&" => \E e \in Entities : StartsAt(out, i, e)
        /\ out[i] \notin {"\"", "'"}

LineBreaks(out) == Cardinality({i \in 1..Len(out) : StartsAt(out, i, LineBreak)})

Newlines(text) == Cardinality({i \in 1..Len(text) : text[i] = "\n"})

C5_Step ==
    \A r \in Readers :
        (CheckStep(r) /\ readers[r].kind = "view" /\ readers'[r].status = 200) =>
            /\ NoLiveMarkup(readers'[r].body.safe_text)
            /\ LineBreaks(readers'[r].body.safe_text) = Newlines(readers[r].row.text)

C5_TextEscaped == [][C5_Step]_vars

\* the page of the text <"> has been rendered
C5_Witness ==
    \E r \in Readers :
        /\ readers[r].kind = "view"
        /\ readers[r].status = 200
        /\ readers[r].body.safe_text =
               <<"&", "l", "t", ";", "&", "q", "u", "o", "t", ";">>

----------------------------------------------------------------------------
(* C6: the store never holds two rows with one token, and an INSERT whose   *)
(* token is that of a stored row is refused and leaves the store as it was. *)

OneRowPerToken == \A r1, r2 \in store : r1.token = r2.token => r1 = r2

C6_Step ==
    (InsertStep /\ RowsOf(store, send.token) # {}) =>
        /\ store' = store
        /\ send'.pc = "done"
        /\ send'.status = 500

C6_TokenUnique == []OneRowPerToken /\ [][C6_Step]_vars

\* a send has generated the token of a stored record of another request and
\* has failed at the INSERT
C6_Witness ==
    /\ send.pc = "done"
    /\ send.failed_at = "insert"
    /\ \E row \in store : row.token = send.token /\ row.created_at # send.now

----------------------------------------------------------------------------
(* C7: rows leave the store only when a view or image request deletes on    *)
(* finding its row expired; it removes the one row of its token, an expired *)
(* row, and no other; a request that finds its row unexpired, or finds no   *)
(* row, leaves the store unchanged.                                         *)

C7_Step ==
    /\ (store \ store' # {}) =>
           \E r \in Readers :
               /\ CheckStep(r)
               /\ readers'[r].status = 410
               /\ store \ store' = RowsOf(store, readers[r].token)
               /\ Cardinality(store \ store') = 1
               /\ \A row \in store \ store' : clock > row.expires_at
               /\ store' \subseteq store
    /\ \A r \in Readers :
        /\ FetchStep(r) => store' = store
        /\ (CheckStep(r) /\ clock <= readers[r].row.expires_at) => store' = store
        /\ (readers'[r] # readers[r] /\ readers'[r].status \in {200, 404}) =>
               store' = store

C7_LazyDeletion == [][C7_Step]_vars

\* an expired record has been deleted while another record stays stored, and
\* a request has been answered from the store
C7_Witness ==
    /\ deleted # {}
    /\ store # {}
    /\ \E r \in Readers : readers[r].status = 410
    /\ \E r \in Readers : readers[r].status = 200

----------------------------------------------------------------------------
(* C8: when the email with the link of token t is handed to the provider, a *)
(* row with token t is stored; on success the link returned is the link     *)
(* mailed, and the returned expires_at is the stored one, which is          *)
(* created_at + ttl_seconds.                                                *)

C8_Step ==
    /\ \A m \in outbox' \ outbox :
           /\ EmailStep
           /\ m.body.link = ViewLink(send.token)
           /\ RowsOf(store, send.token) # {}
    /\ (EmailStep /\ send'.resp # NoResp) =>
           /\ send'.resp.status = "sent"
           /\ \E m \in outbox' : m.body.link = send'.resp.link
           /\ \E row \in store :
                  /\ row.token = send.token
                  /\ send'.resp.expires_at = row.expires_at
                  /\ row.expires_at = row.created_at + send.ttl_seconds

C8_CommitBeforeEmail == [][C8_Step]_vars

\* a request with a ttl of one second has been answered {status: sent, ...}
C8_Witness ==
    /\ send.pc = "done"
    /\ send.resp # NoResp
    /\ send.ttl_seconds = 1
    /\ \E m \in outbox : m.body.link = send.resp.link

----------------------------------------------------------------------------
(* C9: concurrent view and image requests on one token whose expiry checks  *)
(* run after the expiry time: each answers 410 (404 when its lookup finds   *)
(* no row), none renders or serves, the delete of a row already deleted     *)
(* raises nothing, and once a request has answered 410 the record is        *)
(* absent.                                                                  *)

C9_Step ==
    \A r \in Readers :
        /\ (CheckStep(r) /\ clock > readers[r].row.expires_at) =>
               /\ readers'[r].status = 410
               /\ readers'[r].body = NoBody
               /\ RowsOf(store', readers[r].token) = {}
        /\ (FetchStep(r) /\ RowsOf(store, readers'[r].token) = {}) =>
               (readers'[r].status = 404 /\ readers'[r].body = NoBody)

C9_Absent ==
    \A r \in Readers : readers[r].status = 410 => RowsOf(store, readers[r].token) = {}

C9_ConcurrentExpiry == []C9_Absent /\ [][C9_Step]_vars

\* two requests had both fetched the row before either deleted it: both have
\* answered 410
C9_Witness ==
    \E r1, r2 \in Readers :
        /\ r1 # r2
        /\ readers[r1].token = readers[r2].token
        /\ readers[r1].status = 410
        /\ readers[r2].status = 410
        /\ readers[r1].kind = "view"
        /\ readers[r2].kind = "image"

----------------------------------------------------------------------------
(* C10: a send that fails at the email step leaves its row, and its         *)
(* uploaded file, in place, and until the record expires a view of its      *)
(* token finds the row and renders the page.                                *)

C10_Step ==
    /\ (EmailStep /\ send'.failed_at = "email") =>
           /\ store' = store
           /\ files' = files
    /\ \A r \in Readers :
        /\ (FetchStep(r) /\ send.failed_at = "email"
                /\ readers'[r].token = send.token /\ clock <= send.expires_at) =>
               (readers'[r].pc = "fetched" /\ readers'[r].row.token = send.token)
        /\ (CheckStep(r) /\ readers[r].kind = "view" /\ send.failed_at = "email"
                /\ readers[r].token = send.token /\ clock <= send.expires_at) =>
               readers'[r].status = 200

C10_Kept ==
    (send.failed_at = "email" /\ clock <= send.expires_at) =>
        /\ \E row \in store :
               /\ row.token = send.token
               /\ row.expires_at = send.expires_at
               /\ row.image_path = send.image_path
        /\ send.image.present => send.image_path \in files

C10_NoRollback == []C10_Kept /\ [][C10_Step]_vars

\* the page of a record whose send failed at the email step has been rendered
C10_Witness ==
    \E r \in Readers :
        /\ send.failed_at = "email"
        /\ readers[r].kind = "view"
        /\ readers[r].status = 200
        /\ readers[r].token = send.token

====
